---- MODULE Spec2Model ----
(***************************************************************************)
(* State-machine model of the OpenClaw relayer: QuotaManager,              *)
(* ChallengeManager, RelayerAddressManager and RelayerService.signAndRelay.*)
(* A signAndRelay run is cut into one action per await of the source; the  *)
(* code between two awaits runs without interruption (one JS thread).      *)
(***************************************************************************)
EXTENDS Integers, Sequences, FiniteSets, TLC

(* ------------------------------ bounds --------------------------------- *)
\* the clock Date.now() runs over 0..MaxTime
MaxTime == 2
\* number of challenges issued (each one gets a fresh salt 1..MaxChallenges)
MaxChallenges == 2
\* candidate proof-of-work nonces are 0..MaxNonce
MaxNonce == 1
\* direct incrementUsage calls of the component specification stop at this count
MaxCount == 3
\* number of files of a wallets directory
MaxWallets == 2
\* number of fragments in the text of an upstream error
MaxDetail == 2
\* number of leading digest bytes that checkDifficulty is called with
DigestBytes == 2
\* number of values in the returnData of a registry query
MaxReturnData == 2
\* number of bytes of one returned value
MaxValueBytes == 2

(* ------------------------ configuration values ------------------------- *)
\* QuotaManager.limit (QUOTA_LIMIT), scaled down
limit == 1
\* config.quotaResetIntervalMs, scaled down
quotaResetIntervalMs == 1
\* ChallengeManager.ttlMs, scaled down
ttlMs == 1
\* ChallengeManager.difficultyBits as the tests construct it
difficultyBits == 4
\* getShardFromAddress
numShards == 3
maskHigh == 3
maskLow == 1

(* ------------------------------ values --------------------------------- *)
\* An address is represented by the last byte of its public key, the only
\* part of it the program computes with.
Agents == {4, 7}
\* the .pem files of the wallets directory, in readdir order
WalletFiles == <<8, 5>>
RunIds == {1, 2}
Nonces == 0..MaxNonce
NoNonce == -1
NoRelayer == -1
NoRow == [count |-> -1, last_reset |-> -1]
NoChallenge == [salt |-> 0, difficulty |-> 0, expiresAt |-> -1]
NoSigner == -1
NoSignature == -1
\* a field of the transaction that the run has not read yet
Unread == -3
NoTx == [signature |-> Unread, relayer |-> Unread, version |-> Unread,
         relayerSignature |-> NoSignature]
IdleRun == [pc |-> "idle", sender |-> 0, challengeNonce |-> Unread, tx |-> NoTx,
            isRegistered |-> FALSE, isValid |-> FALSE, resultStatus |-> "",
            calls |-> <<>>, passed |-> <<>>, salt |-> 0, result |-> "none"]
NoRet == [op |-> "none", address |-> 0, nonce |-> NoNonce, value |-> FALSE]

Malformed == -2
\* the configured identity registry (its address is never computed with)
Registry == 255

\* now                Date.now()
\* quotas             the rows of table quotas, by address
\* challenges         ChallengeManager.challenges, by address
\* nextSalt           the salt randomBytes gives to the next challenge
\* signers, addresses the two maps of RelayerAddressManager, by shard
\* registryAddresses  RelayerService.registryAddresses
\* runs               the signAndRelay runs: position, request, local variables
\* broadcasts         history: transactions broadcast per address since the
\*                    last reset of its quota row
\* issued             history: per address, the salt of the challenge issued
\*                    last and whether a verifySolution has returned true since
\* ret                the last direct call of a component method and its value
VARIABLES now, quotas, challenges, nextSalt, signers, addresses,
          registryAddresses, runs, broadcasts, issued, ret

vars == <<now, quotas, challenges, nextSalt, signers, addresses,
          registryAddresses, runs, broadcasts, issued, ret>>

(* --------------------------- ChallengeManager -------------------------- *)
\* Bitwise AND of a byte with a mask of the form 2^k - 1.
BitAnd(b, mask) == b % (mask + 1)

RECURSIVE Pow2(_)
Pow2(k) == IF k = 0 THEN 1 ELSE 2 * Pow2(k - 1)

\* createHash("sha256").update(address + salt + nonce).digest(): a fixed
\* deterministic function of the three inputs; two digest bytes are kept.
\* The first byte is below 16 exactly when address + salt + nonce is even.
Sha256(address, salt, nonce) ==
    LET x == address + salt + nonce
    IN  IF x % 2 = 0 THEN <<x % 16, (x * 37) % 256>>
        ELSE <<16 + ((x * 29) % 240), (x * 53) % 256>>

\* mutant: the byte after the zero bytes may equal 2^(8 - remainingBits)
checkDifficulty_Inclusive(hash, difficulty) ==
    LET fullBytes == difficulty \div 8
        remainingBits == difficulty % 8
    IN  /\ \A i \in 1..fullBytes : hash[i] = 0
        /\ remainingBits > 0 => hash[fullBytes + 1] <= Pow2(8 - remainingBits)

checkDifficulty(hash, difficulty) ==
    LET fullBytes == difficulty \div 8
        remainingBits == difficulty % 8
    IN  /\ \A i \in 1..fullBytes : hash[i] = 0
        /\ remainingBits > 0 => hash[fullBytes + 1] < Pow2(8 - remainingBits)

\* mutant: an outstanding challenge is kept instead of being overwritten
getChallenge_KeepExisting(chs, address, salt, t) ==
    IF chs[address] # NoChallenge THEN chs
    ELSE [chs EXCEPT ![address] =
            [salt |-> salt, difficulty |-> difficultyBits, expiresAt |-> t + ttlMs]]

\* getChallenge(address): the stored entry after the call
getChallenge(chs, address, salt, t) ==
    [chs EXCEPT ![address] =
        [salt |-> salt, difficulty |-> difficultyBits, expiresAt |-> t + ttlMs]]

\* mutant: the entry is not deleted when the solution verifies
verifySolution_NoDelete(chs, address, nonce, t) ==
    LET challenge == chs[address]
    IN  IF challenge = NoChallenge
          THEN [value |-> FALSE, challenges |-> chs]
        ELSE IF t > challenge.expiresAt
          THEN [value |-> FALSE,
                challenges |-> [chs EXCEPT ![address] = NoChallenge]]
        ELSE [value |-> checkDifficulty(Sha256(address, challenge.salt, nonce),
                                        challenge.difficulty),
              challenges |-> chs]

\* mutant: the entry is deleted after any attempt, failed ones included
verifySolution_DeleteOnFail(chs, address, nonce, t) ==
    LET challenge == chs[address]
    IN  IF challenge = NoChallenge
          THEN [value |-> FALSE, challenges |-> chs]
        ELSE [value |-> /\ t <= challenge.expiresAt
                        /\ checkDifficulty(Sha256(address, challenge.salt, nonce),
                                           challenge.difficulty),
              challenges |-> [chs EXCEPT ![address] = NoChallenge]]

\* mutant: the challenge counts as expired already at now = expiresAt
verifySolution_ExpiryOffByOne(chs, address, nonce, t) ==
    LET challenge == chs[address]
    IN  IF challenge = NoChallenge
          THEN [value |-> FALSE, challenges |-> chs]
        ELSE IF t >= challenge.expiresAt
          THEN [value |-> FALSE,
                challenges |-> [chs EXCEPT ![address] = NoChallenge]]
        ELSE IF ~checkDifficulty(Sha256(address, challenge.salt, nonce),
                                 challenge.difficulty)
          THEN [value |-> FALSE, challenges |-> chs]
        ELSE [value |-> TRUE,
              challenges |-> [chs EXCEPT ![address] = NoChallenge]]

\* mutant: the difficulty of the solution is not checked
verifySolution_AnyNonce(chs, address, nonce, t) ==
    LET challenge == chs[address]
    IN  IF challenge = NoChallenge
          THEN [value |-> FALSE, challenges |-> chs]
        ELSE IF t > challenge.expiresAt
          THEN [value |-> FALSE,
                challenges |-> [chs EXCEPT ![address] = NoChallenge]]
        ELSE [value |-> TRUE,
              challenges |-> [chs EXCEPT ![address] = NoChallenge]]

\* verifySolution(address, nonce): the value returned and the table afterwards
verifySolution(chs, address, nonce, t) ==
    LET challenge == chs[address]
    IN  IF challenge = NoChallenge
          THEN [value |-> FALSE, challenges |-> chs]
        ELSE IF t > challenge.expiresAt
          THEN [value |-> FALSE,
                challenges |-> [chs EXCEPT ![address] = NoChallenge]]
        ELSE IF ~checkDifficulty(Sha256(address, challenge.salt, nonce),
                                 challenge.difficulty)
          THEN [value |-> FALSE, challenges |-> chs]
        ELSE [value |-> TRUE,
              challenges |-> [chs EXCEPT ![address] = NoChallenge]]

(* ----------------------------- QuotaManager ---------------------------- *)
\* mutant: the window already counts as elapsed at now - last_reset = interval
checkLimit_WindowOffByOne(q, address, t) ==
    LET row == q[address]
    IN  IF row = NoRow
          THEN [value |-> TRUE, quotas |-> q]
        ELSE IF t - row.last_reset >= quotaResetIntervalMs
          THEN [value |-> TRUE,
                quotas |-> [q EXCEPT ![address] = [count |-> 0, last_reset |-> t]]]
        ELSE [value |-> row.count < limit, quotas |-> q]

\* mutant: count = limit is still allowed
checkLimit_AtMost(q, address, t) ==
    LET row == q[address]
    IN  IF row = NoRow
          THEN [value |-> TRUE, quotas |-> q]
        ELSE IF t - row.last_reset > quotaResetIntervalMs
          THEN [value |-> TRUE,
                quotas |-> [q EXCEPT ![address] = [count |-> 0, last_reset |-> t]]]
        ELSE [value |-> row.count <= limit, quotas |-> q]

\* mutant: checkLimit creates the row of an identity it does not know
checkLimit_CreatesRow(q, address, t) ==
    LET row == q[address]
    IN  IF row = NoRow
          THEN [value |-> TRUE,
                quotas |-> [q EXCEPT ![address] = [count |-> 0, last_reset |-> t]]]
        ELSE IF t - row.last_reset > quotaResetIntervalMs
          THEN [value |-> TRUE,
                quotas |-> [q EXCEPT ![address] = [count |-> 0, last_reset |-> t]]]
        ELSE [value |-> row.count < limit, quotas |-> q]

\* checkLimit(address): the value returned and the table afterwards
checkLimit(q, address, t) ==
    LET row == q[address]
    IN  IF row = NoRow
          THEN [value |-> TRUE, quotas |-> q]
        ELSE IF t - row.last_reset > quotaResetIntervalMs
          THEN [value |-> TRUE,
                quotas |-> [q EXCEPT ![address] = [count |-> 0, last_reset |-> t]]]
        ELSE [value |-> row.count < limit, quotas |-> q]

\* mutant: an existing row is charged twice
incrementUsage_ByTwo(q, address, t) ==
    IF q[address] = NoRow
      THEN [q EXCEPT ![address] = [count |-> 1, last_reset |-> t]]
      ELSE [q EXCEPT ![address].count = @ + 2]

\* mutant: INSERT OR REPLACE, an existing row is overwritten
incrementUsage_InsertOrReplace(q, address, t) ==
    [q EXCEPT ![address] = [count |-> 1, last_reset |-> t]]

\* mutant: the UPDATE has no WHERE clause
incrementUsage_AllRows(q, address, t) ==
    [b \in DOMAIN q |->
       IF q[b] # NoRow THEN [q[b] EXCEPT !.count = @ + 1]
       ELSE IF b = address THEN [count |-> 1, last_reset |-> t]
       ELSE NoRow]

\* mutant: a row whose window has elapsed is started again
incrementUsage_ResetsElapsed(q, address, t) ==
    IF q[address] = NoRow \/ t - q[address].last_reset > quotaResetIntervalMs
      THEN [q EXCEPT ![address] = [count |-> 1, last_reset |-> t]]
      ELSE [q EXCEPT ![address].count = @ + 1]

\* incrementUsage(address): the table afterwards
incrementUsage(q, address, t) ==
    IF q[address] = NoRow
      THEN [q EXCEPT ![address] = [count |-> 1, last_reset |-> t]]
      ELSE [q EXCEPT ![address].count = @ + 1]

(* ------------------------ RelayerAddressManager ------------------------ *)
\* mutant: "last byte % 3", the simplification the comment in the source names
getShardFromAddress_Modulo(address) == address % numShards

getShardFromAddress(address) ==
    LET lastByte == address
        shard == BitAnd(lastByte, maskHigh)
    IN  IF shard > numShards - 1 THEN BitAnd(lastByte, maskLow) ELSE shard

Shards == 0..(numShards - 1)

\* loadWallets: signers.set(shard, signer) and addresses.set(shard, address)
\* for each file in turn; a signer is identified by the address of its key;
\* a file that cannot be read as a key is skipped (the catch in the loop)
\* (first, a mutant: a shard keeps the first wallet loaded for it)
RECURSIVE loadWallets_FirstWins(_, _)
loadWallets_FirstWins(maps, files) ==
    IF files = <<>> THEN maps
    ELSE IF Head(files) = Malformed THEN loadWallets_FirstWins(maps, Tail(files))
    ELSE LET address == Head(files)
             shard == getShardFromAddress(address)
         IN  IF maps.signers[shard] # NoSigner
               THEN loadWallets_FirstWins(maps, Tail(files))
               ELSE loadWallets_FirstWins(
                       [signers |-> [maps.signers EXCEPT ![shard] = address],
                        addresses |-> [maps.addresses EXCEPT ![shard] = address]],
                       Tail(files))

RECURSIVE loadWallets(_, _)
loadWallets(maps, files) ==
    IF files = <<>> THEN maps
    ELSE IF Head(files) = Malformed THEN loadWallets(maps, Tail(files))
    ELSE LET address == Head(files)
             shard == getShardFromAddress(address)
         IN  loadWallets([signers |-> [maps.signers EXCEPT ![shard] = address],
                          addresses |-> [maps.addresses EXCEPT ![shard] = address]],
                         Tail(files))

\* mutant: the signer of shard 0 whatever the user's shard
getSignerForUser_IgnoresShard(sgn, userAddress) == sgn[0]

\* getSignerForUser: the signer of the user's shard, NoSigner when it throws
getSignerForUser(sgn, userAddress) == sgn[getShardFromAddress(userAddress)]

\* mutant: the address of shard 0 whatever the user's shard
getRelayerAddressForUser_IgnoresShard(adr, userAddress) == adr[0]

\* mutant: the address registered for the shard after the user's
getRelayerAddressForUser_NextShard(adr, userAddress) ==
    adr[(getShardFromAddress(userAddress) + 1) % numShards]

\* getRelayerAddressForUser: the address of the user's shard, NoSigner when
\* it throws
getRelayerAddressForUser(adr, userAddress) == adr[getShardFromAddress(userAddress)]

(* ----------------------------- RelayerService -------------------------- *)
\* validateTransaction: verify(publicKey of tx.sender, payload, tx.signature).
\* A signature is identified by the key that produced it; a malformed one
\* makes the verifier throw, which the catch turns into false.
\* (first, a mutant: any well-formed signature is accepted)
validateTransaction_AnyWellFormed(sender, tx) == tx.signature # Malformed

validateTransaction(sender, tx) ==
    IF tx.signature = Malformed THEN FALSE ELSE tx.signature = sender

\* The answers of provider.queryContract: a thrown error, or the returnData
\* list, each value given by its decoded bytes.
QueryThrows == [threw |-> TRUE, returnData |-> <<>>]
Returned(returnData) == [threw |-> FALSE, returnData |-> returnData]
QueryResponses ==
    { QueryThrows, Returned(<<>>), Returned(<< <<>> >>), Returned(<< <<0>> >>),
      Returned(<< <<1>> >>), Returned(<< <<0, 2>> >>) }

\* BigInt('0x' + raw.toString('hex')): big-endian value of the bytes
RECURSIVE BigEndian(_)
BigEndian(raw) ==
    IF raw = <<>> THEN 0
    ELSE 256 * BigEndian(SubSeq(raw, 1, Len(raw) - 1)) + raw[Len(raw)]

\* mutant: without a registry nobody is authorized
isAuthorized_FailClosed(registries, queryResponse) ==
    IF Len(registries) = 0 THEN FALSE
    ELSE IF queryResponse.threw THEN FALSE
    ELSE IF Len(queryResponse.returnData) = 0 THEN FALSE
    ELSE LET raw == queryResponse.returnData[1]
             agentId == IF Len(raw) > 0 THEN BigEndian(raw) ELSE 0
         IN  agentId > 0

\* mutant: an error of the registry query counts as registered
isAuthorized_ErrorAuthorizes(registries, queryResponse) ==
    IF Len(registries) = 0 THEN TRUE
    ELSE IF queryResponse.threw THEN TRUE
    ELSE IF Len(queryResponse.returnData) = 0 THEN FALSE
    ELSE LET raw == queryResponse.returnData[1]
             agentId == IF Len(raw) > 0 THEN BigEndian(raw) ELSE 0
         IN  agentId > 0

\* mutant: any non-empty first value counts as an identifier
isAuthorized_AnyValue(registries, queryResponse) ==
    IF Len(registries) = 0 THEN TRUE
    ELSE IF queryResponse.threw THEN FALSE
    ELSE IF Len(queryResponse.returnData) = 0 THEN FALSE
    ELSE Len(queryResponse.returnData[1]) > 0

\* isAuthorized, from the registries configured and the answer to the query
isAuthorized(registries, queryResponse) ==
    IF Len(registries) = 0 THEN TRUE
    ELSE IF queryResponse.threw THEN FALSE
    ELSE IF Len(queryResponse.returnData) = 0 THEN FALSE
    ELSE LET raw == queryResponse.returnData[1]
             agentId == IF Len(raw) > 0 THEN BigEndian(raw) ELSE 0
         IN  agentId > 0

\* ISimulationResult: "" stands for an undefined (or empty) string, and an
\* execution object is absent or carries result and message.
NoExecution == [present |-> FALSE, result |-> "", message |-> ""]
Exec(result, message) == [present |-> TRUE, result |-> result, message |-> message]
Sim(ss, rs, ex, rex, err) ==
    [threw |-> FALSE, statusStatus |-> ss, rawStatus |-> rs, execution |-> ex,
     resultExecution |-> rex, error |-> err]
SimThrows == [threw |-> TRUE, statusStatus |-> "", rawStatus |-> "",
              execution |-> NoExecution, resultExecution |-> NoExecution,
              error |-> "network"]
SimulationResults ==
    { SimThrows,
      Sim("success", "", NoExecution, NoExecution, ""),
      Sim("", "success", NoExecution, NoExecution, ""),
      Sim("", "", Exec("success", ""), NoExecution, ""),
      Sim("", "", NoExecution, Exec("success", ""), ""),
      Sim("fail", "success", NoExecution, NoExecution, ""),
      Sim("", "", Exec("fail", "out of gas"), Exec("success", ""), ""),
      Sim("", "", NoExecution, NoExecution, "bad request"),
      Sim("", "", NoExecution, NoExecution, "") }

\* a || b of JavaScript on strings
OrElse(a, b) == IF a # "" THEN a ELSE b

\* the execution object the parser reads
simExecution(sim) ==
    IF sim.execution.present THEN sim.execution ELSE sim.resultExecution

\* mutant: the raw status is read before the top-level status
resultStatus_RawFirst(sim) ==
    OrElse(OrElse(sim.rawStatus, sim.statusStatus), simExecution(sim).result)

\* resultStatus of the parser
resultStatus(sim) ==
    OrElse(OrElse(sim.statusStatus, sim.rawStatus), simExecution(sim).result)

\* the message of the rejection when resultStatus is not 'success'
simMessage(sim) ==
    OrElse(OrElse(simExecution(sim).message, sim.error), "Unknown error")

\* The request (transaction and challengeNonce) does not change while the run
\* reads it and no other run sees it, so the model fixes each of its fields at
\* the step where the code first reads it (challengeNonce at the authorization
\* gate, tx.signature in validateTransaction, tx.relayer and tx.version at
\* their gates); a run that stops earlier never depends on the fields it has
\* not read.
Signatures == Agents \cup {Malformed}
Relayers == {NoRelayer} \cup {WalletFiles[i] : i \in 1..Len(WalletFiles)}
Versions == {1, 2}

\* a run that has thrown
Reject(run, reason, calls) ==
    [run EXCEPT !.pc = "rejected", !.result = reason, !.calls = run.calls \o calls]

(* ------------------------------- actions ------------------------------- *)
NoMaps == [signers |-> [s \in Shards |-> NoSigner],
           addresses |-> [s \in Shards |-> NoSigner]]

\* The state after main has built the services: an empty quota table
\* (DB_PATH ":memory:"), no challenge, the wallets of directory `dir` loaded
\* and `registries` configured.
Started(dir, registries) ==
    /\ now = 0
    /\ quotas = [a \in Agents |-> NoRow]
    /\ challenges = [a \in Agents |-> NoChallenge]
    /\ nextSalt = 1
    /\ signers = loadWallets(NoMaps, dir).signers
    /\ addresses = loadWallets(NoMaps, dir).addresses
    /\ registryAddresses = registries
    /\ runs = [r \in RunIds |-> IdleRun]
    /\ broadcasts = [a \in Agents |-> 0]
    /\ issued = [a \in Agents |-> [salt |-> 0, solved |-> FALSE]]
    /\ ret = NoRet

\* a deployment with a registry configured and a wallet for every shard that
\* has an agent
Init == Started(WalletFiles, <<Registry>>)

\* Date.now() advances
Tick ==
    /\ now < MaxTime
    /\ now' = now + 1
    /\ UNCHANGED <<quotas, challenges, nextSalt, signers, addresses,
                   registryAddresses, runs, broadcasts, issued, ret>>

\* POST /challenge
PostChallenge(address) ==
    /\ nextSalt <= MaxChallenges
    /\ challenges' = getChallenge(challenges, address, nextSalt, now)
    /\ nextSalt' = nextSalt + 1
    /\ issued' = [issued EXCEPT ![address] = [salt |-> nextSalt, solved |-> FALSE]]
    /\ UNCHANGED <<now, quotas, signers, addresses, registryAddresses, runs,
                   broadcasts, ret>>

\* signAndRelay up to its first await: the quota check and the start of
\* isAuthorized (which sends the registry query when a registry is configured)
StartRun(r, sender) ==
    /\ runs[r].pc = "idle"
    /\ LET cl == checkLimit(quotas, sender, now)
           run == [runs[r] EXCEPT !.sender = sender]
       IN  /\ quotas' = cl.quotas
           /\ broadcasts' = IF cl.quotas # quotas
                              THEN [broadcasts EXCEPT ![sender] = 0]
                              ELSE broadcasts
           /\ runs' = [runs EXCEPT ![r] =
                IF ~cl.value
                  THEN Reject(run, "QuotaExceeded", <<"checkLimit">>)
                  ELSE [run EXCEPT
                          !.pc = "awaitAuth",
                          !.passed = <<"quota">>,
                          !.calls = IF Len(registryAddresses) = 0
                                      THEN <<"checkLimit">>
                                      ELSE <<"checkLimit", "queryContract">>]]
    /\ UNCHANGED <<now, challenges, nextSalt, signers, addresses,
                   registryAddresses, issued, ret>>

\* mutant: a nonce in the request is verified even for a registered sender
AuthReturn_VerifiesAnyNonce(r, queryResponse, challengeNonce, signature) ==
    /\ runs[r].pc = "awaitAuth"
    /\ LET run == runs[r]
           isRegistered == isAuthorized(registryAddresses, queryResponse)
           nonced == [run EXCEPT !.challengeNonce = challengeNonce]
           vs == verifySolution(challenges, run.sender, challengeNonce, now)
           tx == [run.tx EXCEPT !.signature = signature]
           validated == [nonced EXCEPT
                           !.pc = "awaitValidate",
                           !.isRegistered = isRegistered,
                           !.passed = run.passed \o <<"auth">>,
                           !.tx = tx,
                           !.isValid = validateTransaction(run.sender, tx)]
       IN  IF challengeNonce = NoNonce
             THEN /\ runs' = [runs EXCEPT ![r] =
                        IF isRegistered
                          THEN [validated EXCEPT
                                  !.calls = run.calls \o <<"validateTransaction">>]
                          ELSE Reject(nonced, "Unauthorized", <<>>)]
                  /\ UNCHANGED <<challenges, issued>>
           ELSE /\ challenges' = vs.challenges
                /\ issued' = IF vs.value
                               THEN [issued EXCEPT ![run.sender].solved = TRUE]
                               ELSE issued
                /\ runs' = [runs EXCEPT ![r] =
                     IF ~vs.value
                       THEN Reject(nonced, "Unauthorized", <<"verifySolution">>)
                       ELSE [validated EXCEPT
                               !.salt = challenges[run.sender].salt,
                               !.calls = run.calls \o
                                   <<"verifySolution", "validateTransaction">>]]
    /\ UNCHANGED <<now, quotas, nextSalt, signers, addresses, registryAddresses,
                   broadcasts, ret>>

\* isAuthorized returns: the authorization gate, then validateTransaction is
\* called (it runs to its end and its promise is awaited)
AuthReturn(r, queryResponse, challengeNonce, signature) ==
    /\ runs[r].pc = "awaitAuth"
    /\ LET run == runs[r]
           isRegistered == isAuthorized(registryAddresses, queryResponse)
           nonced == [run EXCEPT !.challengeNonce = challengeNonce]
           vs == verifySolution(challenges, run.sender, challengeNonce, now)
           tx == [run.tx EXCEPT !.signature = signature]
           validated == [IF isRegistered THEN run ELSE nonced EXCEPT
                           !.pc = "awaitValidate",
                           !.isRegistered = isRegistered,
                           !.passed = run.passed \o <<"auth">>,
                           !.tx = tx,
                           !.isValid = validateTransaction(run.sender, tx)]
       IN  IF isRegistered
             THEN /\ runs' = [runs EXCEPT ![r] =
                        [validated EXCEPT
                           !.calls = run.calls \o <<"validateTransaction">>]]
                  /\ UNCHANGED <<challenges, issued>>
           ELSE IF challengeNonce = NoNonce
             THEN /\ runs' = [runs EXCEPT ![r] = Reject(nonced, "Unauthorized", <<>>)]
                  /\ UNCHANGED <<challenges, issued>>
           ELSE /\ challenges' = vs.challenges
                /\ issued' = IF vs.value
                               THEN [issued EXCEPT ![run.sender].solved = TRUE]
                               ELSE issued
                /\ runs' = [runs EXCEPT ![r] =
                     IF ~vs.value
                       THEN Reject(nonced, "Unauthorized", <<"verifySolution">>)
                       ELSE [validated EXCEPT
                               !.salt = challenges[run.sender].salt,
                               !.calls = run.calls \o
                                   <<"verifySolution", "validateTransaction">>]]
    /\ UNCHANGED <<now, quotas, nextSalt, signers, addresses, registryAddresses,
                   broadcasts, ret>>

\* mutant: the version of the transaction is not checked
ValidateReturn_NoVersionGate(r, relayer, version) ==
    /\ runs[r].pc = "awaitValidate"
    /\ LET run == runs[r]
           relayerSigner == getSignerForUser(signers, run.sender)
           bound == [run EXCEPT !.tx.relayer = relayer]
           versioned == [bound EXCEPT !.tx.version = version]
       IN  runs' = [runs EXCEPT ![r] =
             IF ~run.isValid
               THEN Reject(run, "InvalidSignature", <<>>)
             ELSE IF relayerSigner = NoSigner
               THEN Reject([run EXCEPT !.passed = run.passed \o <<"sig">>],
                           "NotFound", <<"getSignerForUser">>)
             ELSE IF relayer = NoRelayer \/ relayer # relayerSigner
               THEN Reject([bound EXCEPT !.passed = run.passed \o <<"sig">>],
                           "InvalidRelayer", <<"getSignerForUser">>)
             ELSE [versioned EXCEPT
                     !.pc = "awaitSign",
                     !.passed = run.passed \o <<"sig", "bound", "version">>,
                     !.calls = run.calls \o <<"getSignerForUser", "sign">>]]
    /\ UNCHANGED <<now, quotas, challenges, nextSalt, signers, addresses,
                   registryAddresses, broadcasts, issued, ret>>

\* mutant: a rejection at one of these gates puts the sender's challenge back
ValidateReturn_RestoresChallenge(r, relayer, version) ==
    /\ runs[r].pc = "awaitValidate"
    /\ LET run == runs[r]
           relayerSigner == getSignerForUser(signers, run.sender)
           bound == [run EXCEPT !.tx.relayer = relayer]
           versioned == [bound EXCEPT !.tx.version = version]
           after ==
             IF ~run.isValid
               THEN Reject(run, "InvalidSignature", <<>>)
             ELSE IF relayerSigner = NoSigner
               THEN Reject([run EXCEPT !.passed = run.passed \o <<"sig">>],
                           "NotFound", <<"getSignerForUser">>)
             ELSE IF relayer = NoRelayer \/ relayer # relayerSigner
               THEN Reject([bound EXCEPT !.passed = run.passed \o <<"sig">>],
                           "InvalidRelayer", <<"getSignerForUser">>)
             ELSE IF version < 2
               THEN Reject([versioned EXCEPT
                              !.passed = run.passed \o <<"sig", "bound">>],
                           "InvalidVersion", <<"getSignerForUser">>)
             ELSE [versioned EXCEPT
                     !.pc = "awaitSign",
                     !.passed = run.passed \o <<"sig", "bound", "version">>,
                     !.calls = run.calls \o <<"getSignerForUser", "sign">>]
       IN  /\ runs' = [runs EXCEPT ![r] = after]
           /\ challenges' =
                 IF after.pc = "rejected" /\ run.salt # 0
                        /\ challenges[run.sender] = NoChallenge
                   THEN [challenges EXCEPT ![run.sender] =
                           [salt |-> run.salt, difficulty |-> difficultyBits,
                            expiresAt |-> now + ttlMs]]
                   ELSE challenges
    /\ UNCHANGED <<now, quotas, nextSalt, signers, addresses,
                   registryAddresses, broadcasts, issued, ret>>

\* validateTransaction returns: signature gate, signer lookup, shard-binding
\* gate, version gate, then relayerSigner.sign is called
ValidateReturn(r, relayer, version) ==
    /\ runs[r].pc = "awaitValidate"
    /\ LET run == runs[r]
           relayerSigner == getSignerForUser(signers, run.sender)
           bound == [run EXCEPT !.tx.relayer = relayer]
           versioned == [bound EXCEPT !.tx.version = version]
       IN  runs' = [runs EXCEPT ![r] =
             IF ~run.isValid
               THEN Reject(run, "InvalidSignature", <<>>)
             ELSE IF relayerSigner = NoSigner
               THEN Reject([run EXCEPT !.passed = run.passed \o <<"sig">>],
                           "NotFound", <<"getSignerForUser">>)
             ELSE IF relayer = NoRelayer \/ relayer # relayerSigner
               THEN Reject([bound EXCEPT !.passed = run.passed \o <<"sig">>],
                           "InvalidRelayer", <<"getSignerForUser">>)
             ELSE IF version < 2
               THEN Reject([versioned EXCEPT
                              !.passed = run.passed \o <<"sig", "bound">>],
                           "InvalidVersion", <<"getSignerForUser">>)
             ELSE [versioned EXCEPT
                     !.pc = "awaitSign",
                     !.passed = run.passed \o <<"sig", "bound", "version">>,
                     !.calls = run.calls \o <<"getSignerForUser", "sign">>]]
    /\ UNCHANGED <<now, quotas, challenges, nextSalt, signers, addresses,
                   registryAddresses, broadcasts, issued, ret>>

\* mutant: the co-signature is made with the first signer loaded
SignReturn_FirstSigner(r) ==
    /\ runs[r].pc = "awaitSign"
    /\ LET run == runs[r]
       IN  runs' = [runs EXCEPT ![r] =
             [run EXCEPT
                !.pc = "awaitSim",
                !.tx.relayerSignature = signers[getShardFromAddress(WalletFiles[1])],
                !.passed = run.passed \o <<"cosign">>,
                !.calls = run.calls \o <<"simulateTransaction">>]]
    /\ UNCHANGED <<now, quotas, challenges, nextSalt, signers, addresses,
                   registryAddresses, broadcasts, issued, ret>>

\* relayerSigner.sign returns: the co-signature is attached and the
\* simulation is requested
SignReturn(r) ==
    /\ runs[r].pc = "awaitSign"
    /\ LET run == runs[r]
       IN  runs' = [runs EXCEPT ![r] =
             [run EXCEPT
                !.pc = "awaitSim",
                !.tx.relayerSignature = getSignerForUser(signers, run.sender),
                !.passed = run.passed \o <<"cosign">>,
                !.calls = run.calls \o <<"simulateTransaction">>]]
    /\ UNCHANGED <<now, quotas, challenges, nextSalt, signers, addresses,
                   registryAddresses, broadcasts, issued, ret>>

\* provider.simulateTransaction returns or throws: the parser, then the
\* broadcast is requested
SimReturn(r, sim) ==
    /\ runs[r].pc = "awaitSim"
    /\ LET run == runs[r]
       IN  runs' = [runs EXCEPT ![r] =
             IF sim.threw
               THEN Reject(run, "SimulationThrew", <<>>)
             ELSE IF resultStatus(sim) # "success"
               THEN Reject([run EXCEPT !.resultStatus = resultStatus(sim)],
                           "SimulationFailed", <<>>)
             ELSE [run EXCEPT
                     !.pc = "awaitSend",
                     !.resultStatus = resultStatus(sim),
                     !.passed = run.passed \o <<"sim">>,
                     !.calls = run.calls \o <<"sendTransaction">>]]
    /\ UNCHANGED <<now, quotas, challenges, nextSalt, signers, addresses,
                   registryAddresses, broadcasts, issued, ret>>

\* mutant: the usage is counted before the outcome of the broadcast is known
SendReturn_ChargesFailedBroadcast(r, accepted) ==
    /\ runs[r].pc = "awaitSend"
    /\ LET run == runs[r]
       IN  /\ quotas' = incrementUsage(quotas, run.sender, now)
           /\ broadcasts' = IF accepted
                              THEN [broadcasts EXCEPT ![run.sender] = @ + 1]
                              ELSE broadcasts
           /\ runs' = [runs EXCEPT ![r] =
                 IF accepted
                   THEN [run EXCEPT
                           !.pc = "done", !.result = "hash",
                           !.passed = run.passed \o <<"broadcast">>,
                           !.calls = run.calls \o <<"incrementUsage">>]
                   ELSE Reject(run, "BroadcastFailed", <<>>)]
    /\ UNCHANGED <<now, challenges, nextSalt, signers, addresses,
                   registryAddresses, issued, ret>>

\* mutant: after a failed broadcast the run goes back to simulate again
SendReturn_RetriesAfterFailure(r, accepted) ==
    /\ runs[r].pc = "awaitSend"
    /\ LET run == runs[r]
       IN  IF accepted
             THEN /\ quotas' = incrementUsage(quotas, run.sender, now)
                  /\ broadcasts' = [broadcasts EXCEPT ![run.sender] = @ + 1]
                  /\ runs' = [runs EXCEPT ![r] =
                        [run EXCEPT
                           !.pc = "done", !.result = "hash",
                           !.passed = run.passed \o <<"broadcast">>,
                           !.calls = run.calls \o <<"incrementUsage">>]]
             ELSE /\ runs' = [runs EXCEPT ![r] =
                        [run EXCEPT
                           !.pc = "awaitSim",
                           !.passed = SubSeq(run.passed, 1, Len(run.passed) - 1),
                           !.calls = SubSeq(run.calls, 1, Len(run.calls) - 1)]]
                  /\ UNCHANGED <<quotas, broadcasts>>
    /\ UNCHANGED <<now, challenges, nextSalt, signers, addresses,
                   registryAddresses, issued, ret>>

\* provider.sendTransaction returns a hash (accepted) or throws
SendReturn(r, accepted) ==
    /\ runs[r].pc = "awaitSend"
    /\ LET run == runs[r]
       IN  IF accepted
             THEN /\ quotas' = incrementUsage(quotas, run.sender, now)
                  /\ broadcasts' = [broadcasts EXCEPT ![run.sender] = @ + 1]
                  /\ runs' = [runs EXCEPT ![r] =
                        [run EXCEPT
                           !.pc = "done", !.result = "hash",
                           !.passed = run.passed \o <<"broadcast">>,
                           !.calls = run.calls \o <<"incrementUsage">>]]
             ELSE /\ runs' = [runs EXCEPT ![r] = Reject(run, "BroadcastFailed", <<>>)]
                  /\ UNCHANGED <<quotas, broadcasts>>
    /\ UNCHANGED <<now, challenges, nextSalt, signers, addresses,
                   registryAddresses, issued, ret>>

Next ==
    \/ Tick
    \/ \E a \in Agents : PostChallenge(a)
    \/ \E r \in RunIds, a \in Agents : StartRun(r, a)
    \/ \E r \in RunIds, q \in QueryResponses, n \in Nonces \cup {NoNonce},
          sig \in Signatures : AuthReturn(r, q, n, sig)
    \/ \E r \in RunIds, relayer \in Relayers, version \in Versions :
          ValidateReturn(r, relayer, version)
    \/ \E r \in RunIds : SignReturn(r)
    \/ \E r \in RunIds, sim \in SimulationResults : SimReturn(r, sim)
    \/ \E r \in RunIds, accepted \in BOOLEAN : SendReturn(r, accepted)

Spec == Init /\ [][Next]_vars

\* the steps run r takes when the call it awaits returns or fails
RunStep(r) ==
    \/ \E q \in QueryResponses, n \in Nonces \cup {NoNonce}, sig \in Signatures :
          AuthReturn(r, q, n, sig)
    \/ \E relayer \in Relayers, version \in Versions :
          ValidateReturn(r, relayer, version)
    \/ SignReturn(r)
    \/ \E sim \in SimulationResults : SimReturn(r, sim)
    \/ \E accepted \in BOOLEAN : SendReturn(r, accepted)

\* every call a run awaits eventually returns or throws, and the event loop
\* then resumes the run
SpecLive == Init /\ [][Next]_vars /\ \A r \in RunIds : WF_vars(RunStep(r))

\* a deployment whose wallets directory holds one wallet, of shard 0: the
\* senders of shard 1 have no relayer
InitOneWallet == Started(<<8>>, <<Registry>>)

SpecOneWallet == InitOneWallet /\ [][Next]_vars

\* provider.sendTransaction returns or throws, with a quota store whose
\* statements can throw (database locked, disk full, read-only file):
\* incrementUsage is called inside the try of the broadcast, so its error is
\* caught and thrown again as 'Broadcast failed: ...'
SendReturnWrite(r, accepted, written) ==
    IF written \/ ~accepted
      THEN SendReturn(r, accepted)
      ELSE /\ runs[r].pc = "awaitSend"
           /\ LET run == runs[r]
              IN  /\ broadcasts' = [broadcasts EXCEPT ![run.sender] = @ + 1]
                  /\ runs' = [runs EXCEPT ![r] =
                        Reject([run EXCEPT !.passed = run.passed \o <<"broadcast">>],
                               "BroadcastFailed", <<"incrementUsage">>)]
           /\ UNCHANGED <<now, quotas, challenges, nextSalt, signers, addresses,
                          registryAddresses, issued, ret>>

NextStoreFails ==
    \/ Tick
    \/ \E a \in Agents : PostChallenge(a)
    \/ \E r \in RunIds, a \in Agents : StartRun(r, a)
    \/ \E r \in RunIds, q \in QueryResponses, n \in Nonces \cup {NoNonce},
          sig \in Signatures : AuthReturn(r, q, n, sig)
    \/ \E r \in RunIds, relayer \in Relayers, version \in Versions :
          ValidateReturn(r, relayer, version)
    \/ \E r \in RunIds : SignReturn(r)
    \/ \E r \in RunIds, sim \in SimulationResults : SimReturn(r, sim)
    \/ \E r \in RunIds, accepted \in BOOLEAN, written \in BOOLEAN :
          SendReturnWrite(r, accepted, written)

SpecStoreFails == Init /\ [][NextStoreFails]_vars

\* a deployment without any registry address (IDENTITY_REGISTRY_ADDRESS and
\* the two others unset): isAuthorized returns before it queries
InitOpen == Started(WalletFiles, <<>>)

SpecOpen == InitOpen /\ [][Next]_vars

\* the configured registry is unreachable: provider.queryContract throws at
\* every call
NextRegistryDown ==
    \/ Tick
    \/ \E a \in Agents : PostChallenge(a)
    \/ \E r \in RunIds, a \in Agents : StartRun(r, a)
    \/ \E r \in RunIds, n \in Nonces \cup {NoNonce}, sig \in Signatures :
          AuthReturn(r, QueryThrows, n, sig)
    \/ \E r \in RunIds, relayer \in Relayers, version \in Versions :
          ValidateReturn(r, relayer, version)
    \/ \E r \in RunIds : SignReturn(r)
    \/ \E r \in RunIds, sim \in SimulationResults : SimReturn(r, sim)
    \/ \E r \in RunIds, accepted \in BOOLEAN : SendReturn(r, accepted)

SpecRegistryDown == Init /\ [][NextRegistryDown]_vars

(* ------------------------- POST /relay, the answer --------------------- *)
\* A message is the sequence of its text fragments; the fragments the
\* handler searches for are kept whole.
Includes(message, text) == \E i \in 1..Len(message) : message[i] = text

\* the text of an error of the provider (the simulation's message, or the
\* message of the error thrown by simulateTransaction or sendTransaction)
UpstreamFragments == {"Unauthorized", "Quota exceeded", "out of gas", "timeout"}
UpstreamTexts == UNION {[1..n -> UpstreamFragments] : n \in 0..MaxDetail}

\* error.message of the rejection of signAndRelay, by the way the run ended
\* and the text that came from the provider
RejectionMessage(result, detail) ==
    CASE result = "QuotaExceeded" -> <<"Quota exceeded", " for this agent">>
      [] result = "Unauthorized" ->
            <<"Unauthorized", ": Agent not registered. Solve challenge and register first.">>
      [] result = "InvalidSignature" -> <<"Invalid inner transaction", " signature">>
      [] result = "NotFound" -> <<"No relayer configured for shard">>
      [] result = "InvalidRelayer" -> <<"Invalid relayer address.">>
      [] result = "InvalidVersion" -> <<"Invalid transaction version for Relayed V3.">>
      [] result = "SimulationFailed" ->
            <<"On-chain simulation failed: ">>
               \o (IF detail = <<>> THEN <<"Unknown error">> ELSE detail)
      [] result = "SimulationThrew" -> detail
      [] result = "BroadcastFailed" -> <<"Broadcast failed: ">> \o detail
      [] OTHER -> <<>>

\* whether the message of the run's end takes text from the provider
TakesDetail(result) ==
    result \in {"SimulationFailed", "SimulationThrew", "BroadcastFailed"}

Results ==
    {"hash", "QuotaExceeded", "Unauthorized", "InvalidSignature", "NotFound",
     "InvalidRelayer", "InvalidVersion", "SimulationFailed", "SimulationThrew",
     "BroadcastFailed"}

\* the status of the response of POST /relay: 200 with the hash, and in the
\* catch the status found from the text of the message
relayStatus(result, errorMessage) ==
    LET message == IF errorMessage = <<>> THEN <<"Internal Server Error">>
                   ELSE errorMessage
    IN  IF result = "hash" THEN 200
        ELSE IF Includes(message, "Quota exceeded") THEN 429
        ELSE IF Includes(message, "verification failed")
                  \/ Includes(message, "Unauthorized") THEN 403
        ELSE IF Includes(message, "Invalid inner transaction") THEN 400
        ELSE 500

\* the signAndRelay awaited by POST /relay ends: it returns the hash or
\* rejects with an error (provider text only where the message takes it)
SignAndRelayEnds(result, detail) ==
    /\ detail # <<>> => TakesDetail(result)
    /\ ret' = [op |-> "signAndRelay", address |-> 0, nonce |-> NoNonce,
               value |-> 0, result |-> result,
               message |-> RejectionMessage(result, detail)]
    /\ UNCHANGED <<now, quotas, challenges, nextSalt, signers, addresses,
                   registryAddresses, runs, broadcasts, issued>>

\* POST /relay answers: res.status(...)
PostRelayResponds ==
    /\ ret.op = "signAndRelay"
    /\ ret' = [ret EXCEPT !.op = "POST /relay",
                          !.value = relayStatus(ret.result, ret.message)]
    /\ UNCHANGED <<now, quotas, challenges, nextSalt, signers, addresses,
                   registryAddresses, runs, broadcasts, issued>>

NextRelayResponse ==
    \/ \E result \in Results, detail \in UpstreamTexts :
          SignAndRelayEnds(result, detail)
    \/ PostRelayResponds

SpecRelayResponse == Init /\ [][NextRelayResponse]_vars

(* ---------------- the components, called one method at a time ---------- *)
\* the wallets directories: up to MaxWallets .pem files, each the key of
\* one of these addresses or unreadable
WalletCandidates == {5, 6, 8, 9, Malformed}
WalletDirs == UNION {[1..n -> WalletCandidates] : n \in 0..MaxWallets}
\* user addresses, by their last byte
Users == 0..7

InitWallets == \E dir \in WalletDirs : Started(dir, <<Registry>>)

\* relayerAddressManager.getSignerForUser(userAddress)
GetSignerForUserCall(userAddress) ==
    /\ ret' = [ret EXCEPT
                 !.op = "getSignerForUser", !.address = userAddress,
                 !.nonce = NoNonce,
                 !.value = getSignerForUser(signers, userAddress)]
    /\ UNCHANGED <<now, quotas, challenges, nextSalt, signers, addresses,
                   registryAddresses, runs, broadcasts, issued>>

\* GET /relayer/address/:userAddress
GetRelayerAddressForUserCall(userAddress) ==
    /\ ret' = [ret EXCEPT
                 !.op = "getRelayerAddressForUser", !.address = userAddress,
                 !.nonce = NoNonce,
                 !.value = getRelayerAddressForUser(addresses, userAddress)]
    /\ UNCHANGED <<now, quotas, challenges, nextSalt, signers, addresses,
                   registryAddresses, runs, broadcasts, issued>>

NextWallets ==
    \/ \E u \in Users : GetSignerForUserCall(u)
    \/ \E u \in Users : GetRelayerAddressForUserCall(u)

SpecWallets == InitWallets /\ [][NextWallets]_vars

\* the state after the constructor has loaded directory `dir`, the files it
\* read being kept beside the last call
InitLoaded ==
    /\ now = 0
    /\ quotas = [a \in Agents |-> NoRow]
    /\ challenges = [a \in Agents |-> NoChallenge]
    /\ nextSalt = 1
    /\ registryAddresses = <<Registry>>
    /\ runs = [r \in RunIds |-> IdleRun]
    /\ broadcasts = [a \in Agents |-> 0]
    /\ issued = [a \in Agents |-> [salt |-> 0, solved |-> FALSE]]
    /\ \E dir \in WalletDirs :
          /\ signers = loadWallets(NoMaps, dir).signers
          /\ addresses = loadWallets(NoMaps, dir).addresses
          /\ ret = [op |-> "loadWallets", address |-> 0, nonce |-> NoNonce,
                    value |-> FALSE, dir |-> dir]

SpecLoaded == InitLoaded /\ [][NextWallets]_vars

\* challengeManager.verifySolution(address, nonce), as the tests call it
VerifySolutionCall(address, nonce) ==
    /\ LET vs == verifySolution(challenges, address, nonce, now)
       IN  /\ challenges' = vs.challenges
           /\ issued' = IF vs.value
                          THEN [issued EXCEPT ![address].solved = TRUE]
                          ELSE issued
           /\ ret' = [op |-> "verifySolution", address |-> address,
                      nonce |-> nonce, value |-> vs.value]
    /\ UNCHANGED <<now, quotas, nextSalt, signers, addresses, registryAddresses,
                   runs, broadcasts>>

\* quotaManager.checkLimit(address), as the tests call it
CheckLimitCall(address) ==
    /\ LET cl == checkLimit(quotas, address, now)
       IN  /\ quotas' = cl.quotas
           /\ ret' = [op |-> "checkLimit", address |-> address,
                      nonce |-> NoNonce, value |-> cl.value]
    /\ UNCHANGED <<now, challenges, nextSalt, signers, addresses,
                   registryAddresses, runs, broadcasts, issued>>

\* quotaManager.incrementUsage(address), as the tests call it
IncrementUsageCall(address) ==
    /\ quotas[address].count < MaxCount
    /\ quotas' = incrementUsage(quotas, address, now)
    /\ ret' = [op |-> "incrementUsage", address |-> address,
               nonce |-> NoNonce, value |-> TRUE]
    /\ UNCHANGED <<now, challenges, nextSalt, signers, addresses,
                   registryAddresses, runs, broadcasts, issued>>

\* the last byte pubKey[31] of an address
Bytes == 0..255

\* getShardFromAddress(address), for an address of any last byte
GetShardFromAddressCall(address) ==
    /\ ret' = [op |-> "getShardFromAddress", address |-> address,
               nonce |-> NoNonce, value |-> getShardFromAddress(address)]
    /\ UNCHANGED <<now, quotas, challenges, nextSalt, signers, addresses,
                   registryAddresses, runs, broadcasts, issued>>

NextShard == \E b \in Bytes : GetShardFromAddressCall(b)

SpecShard == Init /\ [][NextShard]_vars

\* digests: every byte is zero, a power of two or one less than one
ByteSamples == {0, 255} \cup UNION {{Pow2(k) - 1, Pow2(k)} : k \in 1..7}
Digests == [1..DigestBytes -> ByteSamples]
\* difficulties that look no further than the bytes of the digest
Difficulties == 0..(8 * DigestBytes)

\* the services as main builds them, and a digest and a difficulty for which
\* checkDifficulty is about to be called
InitDifficulty ==
    /\ now = 0
    /\ quotas = [a \in Agents |-> NoRow]
    /\ challenges = [a \in Agents |-> NoChallenge]
    /\ nextSalt = 1
    /\ signers = loadWallets(NoMaps, WalletFiles).signers
    /\ addresses = loadWallets(NoMaps, WalletFiles).addresses
    /\ registryAddresses = <<Registry>>
    /\ runs = [r \in RunIds |-> IdleRun]
    /\ broadcasts = [a \in Agents |-> 0]
    /\ issued = [a \in Agents |-> [salt |-> 0, solved |-> FALSE]]
    /\ \E hash \in Digests, difficulty \in Difficulties :
          ret = [op |-> "call", address |-> 0, nonce |-> NoNonce, value |-> FALSE,
                 hash |-> hash, difficulty |-> difficulty]

\* checkDifficulty(hash, difficulty) returns
CheckDifficultyCall ==
    /\ ret.op = "call"
    /\ ret' = [ret EXCEPT !.op = "checkDifficulty",
                          !.value = checkDifficulty(ret.hash, ret.difficulty)]
    /\ UNCHANGED <<now, quotas, challenges, nextSalt, signers, addresses,
                   registryAddresses, runs, broadcasts, issued>>

NextDifficulty == CheckDifficultyCall

SpecDifficulty == InitDifficulty /\ [][NextDifficulty]_vars

\* the results simulateTransaction can return: each status field absent,
\* 'success' or something else, each execution object absent, successful,
\* failed with a message or without result and message, the error field
\* absent or set
Statuses == {"", "success", "fail"}
Executions == {NoExecution, Exec("success", ""), Exec("fail", "out of gas"),
               Exec("", "")}
SimulationReturns ==
    {Sim(ss, rs, ex, rex, err) :
        ss \in Statuses, rs \in Statuses, ex \in Executions,
        rex \in Executions, err \in {"", "bad request"}}

\* the services as main builds them, and a result that simulateTransaction
\* has just returned to a run
InitSimulation ==
    /\ now = 0
    /\ quotas = [a \in Agents |-> NoRow]
    /\ challenges = [a \in Agents |-> NoChallenge]
    /\ nextSalt = 1
    /\ signers = loadWallets(NoMaps, WalletFiles).signers
    /\ addresses = loadWallets(NoMaps, WalletFiles).addresses
    /\ registryAddresses = <<Registry>>
    /\ runs = [r \in RunIds |-> IdleRun]
    /\ broadcasts = [a \in Agents |-> 0]
    /\ issued = [a \in Agents |-> [salt |-> 0, solved |-> FALSE]]
    /\ \E sim \in SimulationReturns :
          ret = [op |-> "call", address |-> 0, nonce |-> NoNonce, value |-> FALSE,
                 sim |-> sim, status |-> "", message |-> ""]

\* the parser of the simulation result: it throws 'On-chain simulation
\* failed: <message>' (value FALSE) or falls through to the broadcast (TRUE)
ParseSimulation ==
    /\ ret.op = "call"
    /\ ret' = [ret EXCEPT
                 !.op = "parseSimulation",
                 !.status = resultStatus(ret.sim),
                 !.value = (resultStatus(ret.sim) = "success"),
                 !.message = IF resultStatus(ret.sim) # "success"
                               THEN simMessage(ret.sim) ELSE ""]
    /\ UNCHANGED <<now, quotas, challenges, nextSalt, signers, addresses,
                   registryAddresses, runs, broadcasts, issued>>

NextSimulation == ParseSimulation

SpecSimulation == InitSimulation /\ [][NextSimulation]_vars

\* the answers of the identity registry: a thrown error, or up to
\* MaxReturnData values of up to MaxValueBytes bytes each
ReturnedValues == UNION {[1..n -> {0, 1, 2}] : n \in 0..MaxValueBytes}
QueryReturns ==
    {QueryThrows} \cup
    {Returned(rd) : rd \in UNION {[1..n -> ReturnedValues] : n \in 0..MaxReturnData}}

\* the services as main builds them with a registry configured, and the
\* answer the registry is about to give to the query of isAuthorized
InitAuthorized ==
    /\ now = 0
    /\ quotas = [a \in Agents |-> NoRow]
    /\ challenges = [a \in Agents |-> NoChallenge]
    /\ nextSalt = 1
    /\ signers = loadWallets(NoMaps, WalletFiles).signers
    /\ addresses = loadWallets(NoMaps, WalletFiles).addresses
    /\ registryAddresses = <<Registry>>
    /\ runs = [r \in RunIds |-> IdleRun]
    /\ broadcasts = [a \in Agents |-> 0]
    /\ issued = [a \in Agents |-> [salt |-> 0, solved |-> FALSE]]
    /\ \E q \in QueryReturns :
          ret = [op |-> "call", address |-> 0, nonce |-> NoNonce, value |-> FALSE,
                 queryResponse |-> q]

\* relayer.isAuthorized(address) resolves
IsAuthorizedCall ==
    /\ ret.op = "call"
    /\ ret' = [ret EXCEPT
                 !.op = "isAuthorized",
                 !.value = isAuthorized(registryAddresses, ret.queryResponse)]
    /\ UNCHANGED <<now, quotas, challenges, nextSalt, signers, addresses,
                   registryAddresses, runs, broadcasts, issued>>

NextAuthorized == IsAuthorizedCall

SpecAuthorized == InitAuthorized /\ [][NextAuthorized]_vars

NextChallenge ==
    \/ Tick
    \/ \E a \in Agents : PostChallenge(a)
    \/ \E a \in Agents, n \in Nonces : VerifySolutionCall(a, n)

SpecChallenge == Init /\ [][NextChallenge]_vars

NextQuota ==
    \/ Tick
    \/ \E a \in Agents : CheckLimitCall(a)
    \/ \E a \in Agents : IncrementUsageCall(a)

SpecQuota == Init /\ [][NextQuota]_vars

(* ------------------------------ the claims ----------------------------- *)
Range(seq) == {seq[i] : i \in 1..Len(seq)}
IsPrefix(s, t) == Len(s) <= Len(t) /\ \A i \in 1..Len(s) : s[i] = t[i]
Terminal(run) == run.pc \in {"done", "rejected"}

\* the sender's usage has reached the limit and its window has not elapsed
AtLimit(a) ==
    /\ quotas[a] # NoRow
    /\ now - quotas[a].last_reset <= quotaResetIntervalMs
    /\ quotas[a].count >= limit

\* C1: a run started for a sender at its limit within the window is rejected
\* with QuotaExceeded in its first step, having called nothing but checkLimit
\* (no registry query, no verifySolution, no simulation, no broadcast), and
\* a run so rejected never takes another step.
C1_QuotaGateRejectsFirst ==
    [][\A r \in RunIds :
         /\ (runs[r].pc = "idle" /\ runs'[r].pc # "idle"
               /\ AtLimit(runs'[r].sender))
            => /\ runs'[r].pc = "rejected"
               /\ runs'[r].result = "QuotaExceeded"
               /\ runs'[r].calls = <<"checkLimit">>
               /\ UNCHANGED <<quotas, challenges, broadcasts>>
         /\ runs[r].result = "QuotaExceeded" => runs'[r] = runs[r]]_vars

C1_Witness ==
    \E r \in RunIds :
        /\ runs[r].result = "QuotaExceeded"
        /\ AtLimit(runs[r].sender)
        /\ \E q \in RunIds : runs[q].result = "hash" /\ runs[q].sender = runs[r].sender

\* C2: no identity has more than `limit` transactions broadcast between two
\* resets of its quota row, whatever the interleaving of its runs.
C2_BroadcastsWithinLimit == \A a \in Agents : broadcasts[a] <= limit

\* the order of the calls of one run; verifySolution is skipped for a
\* registered sender
CallOrder ==
    <<"checkLimit", "queryContract", "verifySolution", "validateTransaction",
      "getSignerForUser", "sign", "simulateTransaction", "sendTransaction",
      "incrementUsage">>
CallOrderRegistered ==
    <<"checkLimit", "queryContract", "validateTransaction", "getSignerForUser",
      "sign", "simulateTransaction", "sendTransaction", "incrementUsage">>
Stages ==
    <<"quota", "auth", "sig", "bound", "version", "cosign", "sim", "broadcast">>

\* the last call a run may have made, by the way it ended
LastCalls(result) ==
    CASE result = "QuotaExceeded" -> {"checkLimit"}
      [] result = "Unauthorized" -> {"queryContract", "verifySolution"}
      [] result = "InvalidSignature" -> {"validateTransaction"}
      [] result \in {"NotFound", "InvalidRelayer", "InvalidVersion"} ->
            {"getSignerForUser"}
      [] result \in {"SimulationFailed", "SimulationThrew"} ->
            {"simulateTransaction"}
      [] result = "BroadcastFailed" -> {"sendTransaction"}
      [] result = "hash" -> {"incrementUsage"}
      [] OTHER -> {}

\* what a run that has called sendTransaction has behind it
GatesPassed(run) ==
    /\ Len(run.passed) >= 7
    /\ run.isRegistered \/ run.salt # 0
    /\ run.isValid /\ run.tx.signature = run.sender
    /\ addresses[getShardFromAddress(run.sender)] # NoSigner
    /\ run.tx.relayer = addresses[getShardFromAddress(run.sender)]
    /\ run.tx.version >= 2
    /\ run.tx.relayerSignature = signers[getShardFromAddress(run.sender)]
    /\ run.resultStatus = "success"

\* C3: the calls of a run follow the order of the pipeline, the gates are
\* passed in order, sendTransaction is called only by a run that has passed
\* every gate before it (quota, authorization, sender signature, co-signer
\* binding, version, co-signature attached, simulation success), and a run
\* that has been rejected at a gate has, in every state from then on, made
\* no call of a later stage.
C3_BroadcastOnlyAfterAllGates ==
    \A r \in RunIds :
        LET run == runs[r]
        IN  /\ IsPrefix(run.calls, CallOrder)
                 \/ IsPrefix(run.calls, CallOrderRegistered)
            /\ IsPrefix(run.passed, Stages)
            /\ "sendTransaction" \in Range(run.calls) => GatesPassed(run)
            /\ Terminal(run) => run.calls[Len(run.calls)] \in LastCalls(run.result)

C3_Witness ==
    \E r, q \in RunIds :
        /\ runs[r].result = "hash" /\ runs[r].salt # 0
        /\ runs[q].result = "InvalidVersion"

\* C4: a run whose transaction carries a signature that does not verify
\* (forged, or malformed so that the verifier throws) ends at the signature
\* gate with InvalidSignature: it never calls sign, simulateTransaction,
\* sendTransaction or incrementUsage (the only writer of the usage count),
\* and no co-signature is attached.
C4_InvalidSignatureStops ==
    \A r \in RunIds :
        LET run == runs[r]
        IN  (run.tx.signature # Unread /\ run.tx.signature # run.sender)
            => /\ run.pc \in {"awaitValidate", "rejected"}
               /\ run.pc = "rejected" => run.result = "InvalidSignature"
               /\ run.tx.relayerSignature = NoSignature
               /\ Range(run.calls) \cap {"sign", "simulateTransaction",
                      "sendTransaction", "incrementUsage"} = {}

C4_Witness ==
    \E r, q \in RunIds :
        /\ runs[r].result = "InvalidSignature" /\ runs[r].tx.signature = Malformed
        /\ runs[q].result = "InvalidSignature" /\ runs[q].tx.signature \in Agents

\* the nonce satisfies the difficulty predicate for the stored challenge
Qualifies(a, n) ==
    checkDifficulty(Sha256(a, challenges[a].salt, n), challenges[a].difficulty)
Live(a) == challenges[a] # NoChallenge /\ now <= challenges[a].expiresAt

\* C5: no two runs pass the authorization gate on the same issued challenge
\* (a challenge is identified by its salt), in any interleaving; a run of a
\* sender the registry does not report as registered passes the gate only by
\* consuming the sender's live challenge with a qualifying nonce, and
\* otherwise it is rejected with Unauthorized.
C5_OnePassPerChallenge ==
    [][/\ \A r1, r2 \in RunIds :
            (r1 # r2 /\ runs'[r1].salt # 0) => runs'[r1].salt # runs'[r2].salt
       /\ \A r \in RunIds :
            LET a == runs[r].sender
            IN  /\ (runs[r].pc = "awaitAuth" /\ runs'[r].pc = "awaitValidate"
                      /\ ~runs'[r].isRegistered)
                   => /\ Live(a) /\ Qualifies(a, runs'[r].challengeNonce)
                      /\ runs'[r].salt = challenges[a].salt
                      /\ challenges'[a] = NoChallenge
                /\ (runs[r].pc = "awaitAuth" /\ runs'[r].pc = "rejected")
                   => runs'[r].result = "Unauthorized"]_vars

C5_Witness ==
    \E r, q \in RunIds :
        /\ runs[r].sender = runs[q].sender
        /\ runs[r].challengeNonce = runs[q].challengeNonce
        /\ runs[r].pc = "awaitValidate" /\ runs[r].salt # 0
        /\ issued[runs[r].sender].salt = runs[r].salt
        /\ runs[q].result = "Unauthorized"
        /\ "verifySolution" \in Range(runs[q].calls)
        /\ Sha256(runs[q].sender, runs[r].salt, runs[q].challengeNonce)[1] < 16

\* C6: once verifySolution has returned true for an identity, every later
\* verifySolution for it, with any nonce, returns false and changes nothing,
\* until getChallenge is called for it again.
C6_SingleUse ==
    [][\A a \in Agents, n \in Nonces :
         (VerifySolutionCall(a, n) /\ issued[a].solved)
         => /\ ret'.value = FALSE
            /\ challenges' = challenges
            /\ challenges[a] = NoChallenge]_vars

C6_Witness ==
    /\ ret.op = "verifySolution" /\ ret.value = FALSE
    /\ issued[ret.address].solved
    /\ Sha256(ret.address, issued[ret.address].salt, ret.nonce)[1] < 16

\* C7: verifySolution on a live challenge with a nonce that fails the
\* difficulty predicate returns false and leaves the whole table unchanged,
\* at every attempt; with a nonce that satisfies it, on a live challenge, it
\* returns true.
C7_FailedAttemptKeepsChallenge ==
    [][\A a \in Agents, n \in Nonces :
         (VerifySolutionCall(a, n) /\ Live(a))
         => IF Qualifies(a, n)
              THEN ret'.value = TRUE
              ELSE ret'.value = FALSE /\ challenges' = challenges]_vars

C7_Witness ==
    /\ ret.op = "verifySolution" /\ ret.value = FALSE
    /\ Live(ret.address)
    /\ ~Qualifies(ret.address, ret.nonce)
    /\ now = challenges[ret.address].expiresAt

\* C8: verifySolution at now > expiresAt returns false whatever the nonce and
\* deletes the entry; at now = expiresAt a qualifying nonce still verifies;
\* and verifySolution returns true only on an entry that is present and not
\* past its expiry.
C8_ExpiredNeverVerifies ==
    [][\A a \in Agents, n \in Nonces :
         VerifySolutionCall(a, n)
         => /\ (challenges[a] # NoChallenge /\ now > challenges[a].expiresAt)
               => ret'.value = FALSE /\ challenges'[a] = NoChallenge
            /\ (challenges[a] # NoChallenge /\ now = challenges[a].expiresAt
                  /\ Qualifies(a, n))
               => ret'.value = TRUE
            /\ ret'.value => Live(a)]_vars

C8_Witness ==
    /\ ret.op = "verifySolution" /\ ret.value = FALSE
    /\ challenges[ret.address] = NoChallenge
    /\ issued[ret.address].salt # 0 /\ ~issued[ret.address].solved
    /\ Sha256(ret.address, issued[ret.address].salt, ret.nonce)[1] < 16

\* C9: getChallenge stores, under the identity, an entry with the fresh
\* salt, the configured difficulty and the expiry now + ttl, replacing the
\* entry the identity had and touching no other entry; the entry an identity
\* has is always the one issued to it last, so verifySolution returns true
\* only for a nonce that qualifies against the salt issued last.
C9_LatestChallengeOnly ==
    [][\A a \in Agents :
         /\ PostChallenge(a)
            => /\ challenges'[a] = [salt |-> nextSalt,
                                    difficulty |-> difficultyBits,
                                    expiresAt |-> now + ttlMs]
               /\ challenges'[a].salt # challenges[a].salt
               /\ \A b \in Agents \ {a} : challenges'[b] = challenges[b]
         /\ challenges'[a] # NoChallenge
            => challenges'[a].salt = issued'[a].salt
         /\ \A n \in Nonces :
              (VerifySolutionCall(a, n) /\ ret'.value)
              => checkDifficulty(Sha256(a, issued[a].salt, n), difficultyBits)]_vars

C9_Witness ==
    /\ ret = NoRet
    /\ \E a \in Agents :
         /\ challenges[a].salt = 2
         /\ \A b \in Agents \ {a} : issued[b].salt = 0

\* C10: checkLimit returns true for an identity without a row and creates
\* none; for a row whose window has not elapsed it returns count < limit
\* (false once count = limit or more) and changes nothing.
C10_CheckLimitWithinWindow ==
    [][\A a \in Agents :
         CheckLimitCall(a)
         => /\ quotas[a] = NoRow => ret'.value = TRUE /\ quotas' = quotas
            /\ (quotas[a] # NoRow
                  /\ now - quotas[a].last_reset <= quotaResetIntervalMs)
               => /\ ret'.value = (quotas[a].count < limit)
                  /\ quotas' = quotas]_vars

C10_Witness ==
    /\ ret.op = "checkLimit" /\ ret.value = FALSE
    /\ quotas[ret.address].count = limit
    /\ now - quotas[ret.address].last_reset = quotaResetIntervalMs

\* C11: for an identity whose count has reached the limit, checkLimit at
\* now - last_reset > quotaResetIntervalMs returns true and rewrites the row
\* to count 0 and last_reset now, touching no other row; at
\* now - last_reset = quotaResetIntervalMs exactly it returns false and
\* changes nothing.
C11_ResetAfterWindow ==
    [][\A a \in Agents :
         (CheckLimitCall(a) /\ quotas[a] # NoRow /\ quotas[a].count >= limit)
         => /\ now - quotas[a].last_reset > quotaResetIntervalMs
               => /\ ret'.value = TRUE
                  /\ quotas' = [quotas EXCEPT
                                  ![a] = [count |-> 0, last_reset |-> now]]
            /\ now - quotas[a].last_reset = quotaResetIntervalMs
               => ret'.value = FALSE /\ quotas' = quotas]_vars

\* a row with count 0 exists only after a reset: incrementUsage creates a
\* row with count 1
C11_Witness ==
    /\ ret.op = "checkLimit" /\ ret.value = TRUE
    /\ quotas[ret.address] = [count |-> 0, last_reset |-> now]
    /\ now > quotaResetIntervalMs

\* C12: when sendTransaction throws, the run is rejected with
\* BroadcastFailed and that step leaves every quota row (count and
\* last_reset) as it was; the run never calls incrementUsage.
C12_FailedBroadcastKeepsQuota ==
    [][\A r \in RunIds :
         (runs[r].pc = "awaitSend" /\ runs'[r].pc = "rejected")
         => /\ runs'[r].result = "BroadcastFailed"
            /\ runs'[r].calls = runs[r].calls
            /\ "incrementUsage" \notin Range(runs'[r].calls)
            /\ UNCHANGED <<quotas, broadcasts>>]_vars

C12_Witness ==
    \E r \in RunIds :
        /\ runs[r].result = "BroadcastFailed"
        /\ quotas[runs[r].sender] # NoRow
        /\ quotas[runs[r].sender].count = 1

\* the usage count of a row, 0 when the identity has no row
Count(q, a) == IF q[a] = NoRow THEN 0 ELSE q[a].count

\* C13: the step in which a run returns the transaction hash raises the
\* sender's count by exactly 1 (creating the row at count 1 when there was
\* none), keeps last_reset of an existing row and touches no other row, and
\* it comes after sendTransaction was called; no other step raises a count,
\* and a rejected run has never called incrementUsage.
C13_IncrementOnlyAfterBroadcast ==
    [][/\ \A r \in RunIds :
            LET a == runs[r].sender
            IN  /\ (runs[r].pc # "done" /\ runs'[r].pc = "done")
                   => /\ runs[r].pc = "awaitSend"
                      /\ runs[r].calls[Len(runs[r].calls)] = "sendTransaction"
                      /\ runs'[r].result = "hash"
                      /\ Count(quotas', a) = Count(quotas, a) + 1
                      /\ quotas[a] # NoRow
                           => quotas'[a].last_reset = quotas[a].last_reset
                      /\ \A b \in Agents \ {a} : quotas'[b] = quotas[b]
                /\ runs'[r].pc = "rejected"
                   => "incrementUsage" \notin Range(runs'[r].calls)
       /\ \A a \in Agents :
            Count(quotas', a) > Count(quotas, a)
            => \E r \in RunIds :
                 /\ runs[r].pc = "awaitSend" /\ runs'[r].pc = "done"
                 /\ runs[r].sender = a]_vars

\* two runs of one sender have both returned a hash: the count went 0, 1, 2
C13_Witness ==
    \E r, q \in RunIds :
        /\ r # q
        /\ runs[r].result = "hash" /\ runs[q].result = "hash"
        /\ runs[r].sender = runs[q].sender
        /\ quotas[runs[r].sender].count = 2

\* C14: with no registry configured, every run that passes the quota gate
\* passes the authorization gate as registered, whatever challengeNonce the
\* request carries (it is never read); no run calls queryContract or
\* verifySolution, none is rejected with Unauthorized, and no step of a run
\* changes the challenge table.
C14_NoRegistryFailsOpen ==
    [][Len(registryAddresses) = 0
       => \A r \in RunIds :
            LET run == runs'[r]
            IN  /\ Range(run.calls) \cap {"queryContract", "verifySolution"} = {}
                /\ run.result # "Unauthorized"
                /\ run.challengeNonce = Unread
                /\ (runs[r].pc = "awaitAuth" /\ run # runs[r])
                   => run.pc = "awaitValidate" /\ run.isRegistered
                /\ run # runs[r] => UNCHANGED <<challenges, issued>>]_vars

\* a run has gone through to the hash while its sender's challenge is
\* still outstanding
C14_Witness ==
    \E r \in RunIds :
        /\ Len(registryAddresses) = 0
        /\ runs[r].result = "hash"
        /\ runs[r].calls = <<"checkLimit", "validateTransaction",
                             "getSignerForUser", "sign", "simulateTransaction",
                             "sendTransaction", "incrementUsage">>
        /\ challenges[runs[r].sender] # NoChallenge
        /\ issued[runs[r].sender] = [salt |-> challenges[runs[r].sender].salt,
                                     solved |-> FALSE]

\* C15: with a registry configured, when queryContract throws the run is
\* not registered: it passes the authorization gate only with a nonce that
\* qualifies against the sender's live challenge (which it consumes), and
\* otherwise it is rejected with Unauthorized; no run is ever marked
\* registered after a registry error.
C15_RegistryErrorFailsClosed ==
    [][\A r \in RunIds :
         /\ Len(registryAddresses) > 0 => ~runs'[r].isRegistered
         /\ \A n \in Nonces \cup {NoNonce}, sig \in Signatures :
              (runs[r].pc = "awaitAuth" /\ AuthReturn(r, QueryThrows, n, sig))
              => LET a == runs[r].sender
                 IN  IF n # NoNonce /\ Live(a) /\ Qualifies(a, n)
                       THEN /\ runs'[r].pc = "awaitValidate"
                            /\ runs'[r].salt = challenges[a].salt
                            /\ challenges'[a] = NoChallenge
                       ELSE /\ runs'[r].pc = "rejected"
                            /\ runs'[r].result = "Unauthorized"]_vars

\* after registry errors, one run got through on a solved challenge and
\* another one, without nonce, was rejected
C15_Witness ==
    \E r, q \in RunIds :
        /\ Len(registryAddresses) > 0
        /\ runs[r].result = "hash" /\ ~runs[r].isRegistered /\ runs[r].salt # 0
        /\ runs[q].result = "Unauthorized" /\ runs[q].challengeNonce = NoNonce
        /\ runs[q].calls = <<"checkLimit", "queryContract">>

\* C16: a run whose sender the registry does not report as registered is
\* rejected with Unauthorized when the request has no nonce (verifySolution
\* is then not called and the challenge table is unchanged) and when its
\* nonce does not qualify against a live challenge of the sender; a run
\* rejected with Unauthorized has read nothing of the transaction and has
\* called neither validateTransaction, nor the signer, nor the provider's
\* simulation or broadcast, nor incrementUsage.
C16_UnregisteredNeedsValidNonce ==
    [][\A r \in RunIds :
         LET run == runs'[r]
             a == runs[r].sender
         IN  /\ (runs[r].pc = "awaitAuth" /\ run.pc # "awaitAuth"
                   /\ ~run.isRegistered)
                => /\ run.challengeNonce = NoNonce
                      => /\ run.pc = "rejected" /\ run.result = "Unauthorized"
                         /\ run.calls = runs[r].calls
                         /\ UNCHANGED <<challenges, issued>>
                   /\ (run.challengeNonce # NoNonce
                         /\ ~(Live(a) /\ Qualifies(a, run.challengeNonce)))
                      => run.pc = "rejected" /\ run.result = "Unauthorized"
             /\ run.result = "Unauthorized"
                => /\ run.pc = "rejected"
                   /\ run.tx = NoTx
                   /\ Range(run.calls) \cap
                        {"validateTransaction", "getSignerForUser", "sign",
                         "simulateTransaction", "sendTransaction",
                         "incrementUsage"} = {}]_vars

\* one run rejected for a missing nonce and one for a nonce that does not
\* qualify, the sender's challenge still outstanding and unexpired
C16_Witness ==
    \E r, q \in RunIds :
        /\ runs[r].result = "Unauthorized" /\ runs[r].challengeNonce = NoNonce
        /\ runs[q].result = "Unauthorized" /\ runs[q].challengeNonce \in Nonces
        /\ runs[r].sender = runs[q].sender
        /\ Live(runs[r].sender)
        /\ ~Qualifies(runs[q].sender, runs[q].challengeNonce)

\* C17: a run whose sender the registry reports as registered never calls
\* verifySolution and never reads challengeNonce, so it goes on whether or
\* not the request carries a nonce, and none of its steps changes the
\* challenge table; with a transaction signed by the sender, bound to the
\* relayer of the sender's shard and of version 2 or more, it is rejected
\* only by the provider (simulation or broadcast), and otherwise returns
\* the hash.
C17_RegisteredSkipsChallenge ==
    [][\A r \in RunIds :
         LET run == runs'[r]
         IN  run.isRegistered
             => /\ "verifySolution" \notin Range(run.calls)
                /\ run.challengeNonce = Unread /\ run.salt = 0
                /\ run # runs[r] => UNCHANGED <<challenges, issued>>
                /\ run.result \notin {"QuotaExceeded", "Unauthorized"}
                /\ (run.pc = "rejected"
                      /\ run.tx.signature = run.sender
                      /\ run.tx.relayer = addresses[getShardFromAddress(run.sender)]
                      /\ run.tx.version >= 2)
                   => run.result \in {"SimulationFailed", "SimulationThrew",
                                      "BroadcastFailed"}]_vars

\* a registered sender got the hash while its challenge stayed outstanding
C17_Witness ==
    \E r \in RunIds :
        /\ runs[r].result = "hash" /\ runs[r].isRegistered
        /\ runs[r].calls = CallOrderRegistered
        /\ challenges[runs[r].sender] # NoChallenge
        /\ issued[runs[r].sender] = [salt |-> challenges[runs[r].sender].salt,
                                     solved |-> FALSE]

C19_WrongRelayerRejected ==
    [][\A r \in RunIds :
         LET run == runs'[r]
             expected == addresses[getShardFromAddress(run.sender)]
         IN  /\ (run.tx.relayer # Unread /\ run.tx.relayer # expected)
                => /\ run.pc = "rejected" /\ run.result = "InvalidRelayer"
                   /\ run.tx.relayerSignature = NoSignature
                   /\ Range(run.calls) \cap {"sign", "simulateTransaction",
                          "sendTransaction", "incrementUsage"} = {}
             /\ run.tx.relayer # Unread => run.tx.relayer \in Relayers
             /\ runs[r].tx.relayer # Unread
                => run.tx.relayer = runs[r].tx.relayer]_vars

\* one run rejected for an absent relayer, one for the relayer of another
\* shard
C19_Witness ==
    \E r, q \in RunIds :
        /\ runs[r].result = "InvalidRelayer" /\ runs[r].tx.relayer = NoRelayer
        /\ runs[q].result = "InvalidRelayer"
        /\ runs[q].tx.relayer # NoRelayer
        /\ \E s \in Shards : addresses[s] = runs[q].tx.relayer

\* C20: a co-signature attached to a transaction is the one of the signer
\* loaded for the shard of the sender, the declared tx.relayer is the
\* address of that signer, and the co-signature is of no signer loaded for
\* another shard.
C20_CoSignedBySenderShard ==
    \A r \in RunIds :
        LET run == runs[r]
            shard == getShardFromAddress(run.sender)
        IN  run.tx.relayerSignature # NoSignature
            => /\ signers[shard] # NoSigner
               /\ run.tx.relayerSignature = signers[shard]
               /\ run.tx.relayer = addresses[shard]
               /\ \A other \in Shards \ {shard} :
                    run.tx.relayerSignature # signers[other]

\* two senders of different shards, each co-signed by its own shard's signer
C20_Witness ==
    \E r, q \in RunIds :
        /\ runs[r].tx.relayerSignature # NoSignature
        /\ runs[q].tx.relayerSignature # NoSignature
        /\ getShardFromAddress(runs[r].sender) # getShardFromAddress(runs[q].sender)
        /\ runs[r].tx.relayerSignature # runs[q].tx.relayerSignature

\* C21: a run that reads a transaction version below 2 is rejected with
\* InvalidVersion: no co-signature is attached to its transaction and it has
\* called neither sign, nor simulateTransaction, nor sendTransaction, nor
\* incrementUsage.
C21_LowVersionRejected ==
    \A r \in RunIds :
        LET run == runs[r]
        IN  (run.tx.version # Unread /\ run.tx.version < 2)
            => /\ run.pc = "rejected" /\ run.result = "InvalidVersion"
               /\ run.tx.relayerSignature = NoSignature
               /\ Range(run.calls) \cap {"sign", "simulateTransaction",
                      "sendTransaction", "incrementUsage"} = {}

\* rejected for its version alone: signed by the sender and bound to the
\* relayer of the sender's shard
C21_Witness ==
    \E r \in RunIds :
        /\ runs[r].result = "InvalidVersion" /\ runs[r].tx.version = 1
        /\ runs[r].tx.signature = runs[r].sender
        /\ runs[r].tx.relayer = addresses[getShardFromAddress(runs[r].sender)]

\* C22: a run rejected at the simulation stage, whether the simulation
\* reported something else than success or the call of simulateTransaction
\* itself threw, is rejected with SimulationFailed, has not called
\* sendTransaction and has not called incrementUsage.
C22_SimulationFailureRejects ==
    \A r \in RunIds :
        LET run == runs[r]
        IN  (run.pc = "rejected" /\ Len(run.calls) > 0
              /\ run.calls[Len(run.calls)] = "simulateTransaction")
            => /\ run.result = "SimulationFailed"
               /\ "sendTransaction" \notin Range(run.calls)
               /\ "incrementUsage" \notin Range(run.calls)

\* C25: a run whose registry query threw (the registry was unreachable) is
\* not rejected with Unauthorized, and a run rejected after a call of the
\* provider threw is rejected with UpstreamUnavailable.
C25_UpstreamUnavailableDistinct ==
    \A r \in RunIds :
        LET run == runs[r]
        IN  (Len(registryAddresses) > 0 /\ run.pc = "rejected"
              /\ "queryContract" \in Range(run.calls)
              /\ run.calls[Len(run.calls)] \in {"queryContract", "verifySolution"})
            => /\ run.result # "Unauthorized"
               /\ run.result = "UpstreamUnavailable"

\* section 7 of the specification
Taxonomy ==
    {"QuotaExceeded", "Unauthorized", "InvalidSignature", "InvalidRelayer",
     "InvalidVersion", "SimulationFailed", "BroadcastFailed",
     "UpstreamUnavailable"}

\* the number of stages a run rejected with the category has passed
StagesBefore(category) ==
    CASE category = "QuotaExceeded" -> 0
      [] category = "Unauthorized" -> 1
      [] category = "InvalidSignature" -> 2
      [] category = "InvalidRelayer" -> 3
      [] category = "InvalidVersion" -> 4
      [] category = "SimulationFailed" -> 6
      [] category = "BroadcastFailed" -> 7
      [] OTHER -> -1

\* C26: every rejected run carries one category of the taxonomy, and it is
\* the category of the first gate that fails: the run has passed exactly
\* the stages before that gate, in the order quota, authorization,
\* signature, shard binding, version, co-signature, simulation, broadcast.
C26_OneCategoryEarliestGate ==
    \A r \in RunIds :
        LET run == runs[r]
        IN  run.pc = "rejected"
            => /\ run.result \in Taxonomy
               /\ run.passed = SubSeq(Stages, 1, StagesBefore(run.result))

LookupOps == {"getSignerForUser", "getRelayerAddressForUser"}

\* C23: getSignerForUser and getRelayerAddressForUser both fail (NotFound)
\* for a user whose shard has no loaded wallet, and otherwise both return
\* the wallet whose own address lies in the user's shard; so two lookups
\* for users of different shards never return the same wallet.
C23_ShardBoundCredentials ==
    [][ret'.op \in LookupOps
       => LET shard == getShardFromAddress(ret'.address)
          IN  /\ signers[shard] = NoSigner <=> addresses[shard] = NoSigner
              /\ IF signers[shard] = NoSigner
                    THEN ret'.value = NoSigner
                    ELSE /\ ret'.value \in WalletCandidates \ {Malformed}
                         /\ getShardFromAddress(ret'.value) = shard
              /\ (ret.op \in LookupOps /\ ret.value # NoSigner
                    /\ ret'.value # NoSigner
                    /\ getShardFromAddress(ret.address) # shard)
                 => ret.value # ret'.value]_vars

\* a lookup failed for a user of a shard without wallet while another
\* shard has one
C23_Witness ==
    /\ ret.op = "getRelayerAddressForUser" /\ ret.value = NoSigner
    /\ getShardFromAddress(ret.address) = 2
    /\ signers[0] # NoSigner /\ signers[1] # NoSigner

\* C24: the count of an identity equals the number of incrementUsage calls
\* made for it since its row was last reset (or since the start), whatever
\* the interleaving of the runs that make them, the runs that both found no
\* row at their quota check included: no call is lost.
C24_NoLostIncrement ==
    \A a \in Agents : Count(quotas, a) = broadcasts[a]

\* at time 0 no reset has happened: both runs passed the quota check without
\* a row and both incremented
C24_Witness ==
    /\ now = 0
    /\ \E a \in Agents :
         /\ quotas[a] = [count |-> 2, last_reset |-> 0]
         /\ \A r \in RunIds : runs[r].sender = a /\ runs[r].result = "hash"

\* C27: a step changes the quota row or the challenge entry of identity b
\* only if it is POST /challenge for b or a step of a signAndRelay run whose
\* sender is b.
C27_OtherIdentitiesUntouched ==
    [][\A b \in Agents :
         (quotas'[b] # quotas[b] \/ challenges'[b] # challenges[b])
         => \/ PostChallenge(b)
            \/ \E r \in RunIds : runs'[r] # runs[r] /\ runs'[r].sender = b]_vars

\* both identities have a quota row and an outstanding challenge, and a run
\* each
C27_Witness ==
    /\ \A a \in Agents : quotas[a] # NoRow /\ challenges[a] # NoChallenge
    /\ \E r, q \in RunIds :
         /\ runs[r].result = "hash" /\ runs[q].result = "hash"
         /\ runs[r].sender # runs[q].sender

\* C29: a count is never negative; a row changes only by incrementUsage
\* (created with count 1, or count raised by exactly 1) or by a checkLimit
\* that sees the window elapsed (count set to 0); rows are created only by
\* incrementUsage, and a count decreases only by such a reset.
C29_CountChangesTwoWays ==
    [][\A a \in Agents :
         /\ quotas'[a] # NoRow => quotas'[a].count >= 0
         /\ quotas'[a] # quotas[a]
            => \/ /\ ret'.op = "incrementUsage" /\ ret'.address = a
                  /\ IF quotas[a] = NoRow
                       THEN quotas'[a].count = 1
                       ELSE quotas'[a].count = quotas[a].count + 1
               \/ /\ ret'.op = "checkLimit" /\ ret'.address = a
                  /\ quotas[a] # NoRow
                  /\ now - quotas[a].last_reset > quotaResetIntervalMs
                  /\ quotas'[a].count = 0
         /\ (quotas[a] = NoRow /\ quotas'[a] # NoRow)
            => ret'.op = "incrementUsage"]_vars

\* one count has grown to MaxCount and the other one was reset
C29_Witness ==
    \E a, b \in Agents :
        /\ quotas[a].count = MaxCount
        /\ quotas[b].count = 0

\* C30: incrementUsage on an existing row adds 1 to count and keeps
\* last_reset, also when the window of the row has elapsed; without a row it
\* creates one with count 1 and last_reset now; no other row changes.
C30_IncrementKeepsWindow ==
    [][\A a \in Agents :
         IncrementUsageCall(a)
         => /\ IF quotas[a] = NoRow
                 THEN quotas'[a] = [count |-> 1, last_reset |-> now]
                 ELSE quotas'[a] = [count |-> quotas[a].count + 1,
                                    last_reset |-> quotas[a].last_reset]
            /\ \A b \in Agents \ {a} : quotas'[b] = quotas[b]]_vars

\* a row whose window had elapsed was incremented
C30_Witness ==
    /\ ret.op = "incrementUsage"
    /\ quotas[ret.address].count >= 2
    /\ now - quotas[ret.address].last_reset > quotaResetIntervalMs

\* C28: POST /relay answers 200 when signAndRelay returned the hash, 429 to
\* a QuotaExceeded rejection, 403 to Unauthorized, 400 to InvalidSignature,
\* and the status of the answer to a rejection depends on nothing but the
\* way the run ended: it is the same whatever text the provider put in the
\* error.
C28_StatusByCategory ==
    ret.op = "POST /relay"
    => /\ ret.result = "hash" => ret.value = 200
       /\ ret.result = "QuotaExceeded" => ret.value = 429
       /\ ret.result = "Unauthorized" => ret.value = 403
       /\ ret.result = "InvalidSignature" => ret.value = 400
       /\ TakesDetail(ret.result)
          => \A detail \in UpstreamTexts :
               relayStatus(ret.result, RejectionMessage(ret.result, detail))
                 = ret.value

\* a & b of JavaScript on two bytes, bit by bit
RECURSIVE BitwiseAnd(_, _)
BitwiseAnd(a, b) ==
    IF a = 0 \/ b = 0 THEN 0
    ELSE 2 * BitwiseAnd(a \div 2, b \div 2) + (a % 2) * (b % 2)

\* C31: for every last byte b, getShardFromAddress returns b & 0x03 when that
\* is at most numShards - 1 = 2 and b & 0x01 otherwise; the value is one of
\* 0, 1, 2 and is a function of b alone.
C31_ShardReferenceAlgorithm ==
    ret.op = "getShardFromAddress" =>
        LET b == ret.address
            s == BitwiseAnd(b, 3)
        IN  /\ ret.value = IF s <= 2 THEN s ELSE BitwiseAnd(b, 1)
            /\ ret.value \in {0, 1, 2}

\* a byte whose two low bits are both set: the second mask is used
C31_Witness ==
    /\ ret.op = "getShardFromAddress"
    /\ BitwiseAnd(ret.address, 3) = 3
    /\ ret.address > 128
    /\ ret.value = 1
\* bit i (0 is the most significant bit of the first byte) of a digest
Bit(hash, i) == (hash[(i \div 8) + 1] \div Pow2(7 - (i % 8))) % 2

\* C32: checkDifficulty accepts a digest exactly when its first `difficulty`
\* bits are all zero, that is when the first difficulty \div 8 bytes are zero
\* and, for a remainder rem > 0, the next byte is below 2^(8 - rem); with
\* difficulty 0 every digest is accepted.
C32_LeadingZeroBits ==
    ret.op = "checkDifficulty" =>
        LET hash == ret.hash
            d == ret.difficulty
            rem == d % 8
        IN  /\ ret.value = (\A i \in 0..(d - 1) : Bit(hash, i) = 0)
            /\ ret.value =
                  (/\ \A k \in 1..(d \div 8) : hash[k] = 0
                   /\ rem > 0 => hash[(d \div 8) + 1] < Pow2(8 - rem))
            /\ d = 0 => ret.value

\* a digest accepted across a byte boundary, with a nonzero second byte
C32_Witness ==
    /\ ret.op = "checkDifficulty"
    /\ ret.difficulty = 10
    /\ ret.hash[1] = 0 /\ ret.hash[2] = 63
    /\ ret.value
\* the first value of a list that is present ("" is an absent one)
RECURSIVE FirstPresent(_)
FirstPresent(values) ==
    IF values = <<>> THEN ""
    ELSE IF Head(values) # "" THEN Head(values)
    ELSE FirstPresent(Tail(values))

\* C33: the parser takes as status the first present value among
\* status.status, raw.status and the result of the execution object (the
\* top-level execution, else result.execution); the run goes on to the
\* broadcast exactly when that status is 'success', and otherwise the message
\* is execution.message, else the error field, else 'Unknown error'.
C33_SimulationPriorityOrder ==
    ret.op = "parseSimulation" =>
        LET sim == ret.sim
            execution == IF sim.execution # NoExecution THEN sim.execution
                         ELSE sim.resultExecution
            status == FirstPresent(<<sim.statusStatus, sim.rawStatus,
                                     execution.result>>)
        IN  /\ ret.status = status
            /\ ret.value <=> (status = "success")
            /\ ~ret.value =>
                  ret.message = FirstPresent(<<execution.message, sim.error,
                                               "Unknown error">>)

\* a failed top-level status overrides a raw status and an execution that
\* both say success
C33_Witness ==
    /\ ret.op = "parseSimulation"
    /\ ret.sim.statusStatus = "fail"
    /\ ret.sim.rawStatus = "success"
    /\ ret.sim.execution = Exec("", "")
    /\ ret.sim.resultExecution = Exec("fail", "out of gas")
    /\ ret.sim.error = "bad request"
    /\ ~ret.value
    /\ ret.message = "bad request"
\* C34: with a registry configured, isAuthorized returns true exactly when
\* the query returns a first value that decodes to a nonzero identifier (one
\* of its bytes is not zero); an empty result, an empty first value or a zero
\* identifier gives false.
C34_RegisteredIffNonzeroId ==
    ret.op = "isAuthorized" /\ Len(registryAddresses) > 0 =>
        LET q == ret.queryResponse
        IN  ret.value <=>
              /\ ~q.threw
              /\ Len(q.returnData) > 0
              /\ \E i \in 1..Len(q.returnData[1]) : q.returnData[1][i] # 0

\* an identifier whose low byte is zero, followed by an empty second value
C34_Witness ==
    /\ ret.op = "isAuthorized"
    /\ ret.queryResponse = Returned(<< <<1, 0>>, <<>> >>)
    /\ ret.value
\* C35: for a sender whose shard has a credential, getRelayerAddressForUser
\* returns the address of the credential that getSignerForUser returns, the
\* one the shard-binding gate compares tx.relayer with; so a run whose
\* transaction declares the advertised address passes that gate, and a run
\* rejected there declared another one.
C35_AdvertisedAddressPassesGate ==
    \A r \in RunIds :
        LET run == runs[r]
            advertised == getRelayerAddressForUser(addresses, run.sender)
        IN  run.tx.relayer # Unread =>
              /\ advertised # NoSigner
              /\ advertised = getSignerForUser(signers, run.sender)
              /\ run.tx.relayer = advertised =>
                    /\ run.result # "InvalidRelayer"
                    /\ "bound" \in Range(run.passed)
              /\ run.result = "InvalidRelayer" => run.tx.relayer # advertised

\* two runs of senders of different shards each declared the address
\* advertised for its own sender and passed the gate
C35_Witness ==
    /\ runs[1].sender = 4 /\ runs[2].sender = 7
    /\ \A r \in RunIds :
          /\ runs[r].tx.relayer =
                getRelayerAddressForUser(addresses, runs[r].sender)
          /\ "bound" \in Range(runs[r].passed)
\* the positions of directory `dir` that hold a readable key of shard s
KeysOfShard(dir, s) ==
    {i \in 1..Len(dir) : dir[i] # Malformed /\ getShardFromAddress(dir[i]) = s}

Last(positions) == CHOOSE i \in positions : \A j \in positions : j <= i

\* C36: after loading any directory, each shard holds the last readable key
\* of that shard in the directory (none when there is none), the signer map
\* and the address map have the same shards, every credential is filed under
\* the shard of its own address, and no later operation changes the two maps.
C36_OneCredentialPerShard ==
    /\ [](\A s \in Shards :
            LET positions == KeysOfShard(ret.dir, s)
            IN  /\ signers[s] = IF positions = {} THEN NoSigner
                                 ELSE ret.dir[Last(positions)]
                /\ (signers[s] = NoSigner) <=> (addresses[s] = NoSigner)
                /\ signers[s] # NoSigner =>
                      /\ getShardFromAddress(signers[s]) = s
                      /\ getShardFromAddress(addresses[s]) = s)
    /\ [][signers' = signers /\ addresses' = addresses]_vars

\* two keys of shard 1 were loaded, the second one is registered, and a
\* lookup has been made since
C36_Witness ==
    /\ ret.dir = <<5, 9>>
    /\ signers[1] = 9 /\ addresses[1] = 9
    /\ signers[0] = NoSigner
    /\ ret.op = "getSignerForUser"
RejectionReasons == Results \ {"hash"}

\* C37: when every external call eventually returns or fails, every run that
\* has started eventually ends, either done with the transaction hash or
\* rejected with one reason, and a run that has ended takes no further step.
C37_RunTerminates ==
    /\ \A r \in RunIds : (runs[r].pc # "idle") ~> Terminal(runs[r])
    /\ [](\A r \in RunIds :
            /\ runs[r].pc = "done" <=> runs[r].result = "hash"
            /\ runs[r].pc = "rejected" <=> runs[r].result \in RejectionReasons)
    /\ [][\A r \in RunIds : Terminal(runs[r]) => runs'[r] = runs[r]]_vars

\* one run has ended done and the other rejected after the simulation
C37_Witness ==
    /\ runs[1].pc = "done" /\ runs[1].result = "hash"
    /\ runs[2].pc = "rejected" /\ runs[2].result = "SimulationFailed"
\* C38: a challenge consumed at the authorization gate is not put back when
\* a later gate rejects the run: while no new challenge has been issued to
\* the sender of a run that passed on a nonce and was then rejected, the
\* sender has no challenge entry, and every other run of that sender that
\* reaches the gate unregistered is rejected with Unauthorized, whatever its
\* nonce (the same one included).
C38_ConsumedChallengeNotRestored ==
    [][\A r \in RunIds :
         LET run == runs[r]
             a == run.sender
         IN  (run.pc = "rejected" /\ run.salt # 0 /\ run.salt = issued[a].salt)
             => /\ challenges[a] = NoChallenge
                /\ \A q \in RunIds \ {r} :
                      (/\ runs[q].pc = "awaitAuth" /\ runs[q].sender = a
                       /\ runs'[q].pc # "awaitAuth"
                       /\ ~runs'[q].isRegistered)
                      => /\ runs'[q].pc = "rejected"
                         /\ runs'[q].result = "Unauthorized"]_vars

\* run r passed on nonce N and was rejected for want of a relayer in the
\* sender's shard; run q of the same sender carried N, was rejected by
\* verifySolution, and no challenge has been issued since
C38_Witness ==
    \E r, q \in RunIds :
        /\ runs[r].result = "NotFound" /\ runs[r].salt # 0
        /\ runs[q].result = "Unauthorized"
        /\ runs[q].sender = runs[r].sender
        /\ runs[q].challengeNonce = runs[r].challengeNonce
        /\ "verifySolution" \in Range(runs[q].calls)
        /\ issued[runs[r].sender].salt = runs[r].salt
        /\ challenges[runs[r].sender] = NoChallenge
\* C39: a run is rejected with BroadcastFailed only when the network did not
\* accept the transaction: a run whose sendTransaction returned a hash
\* returns that hash, also when the incrementUsage that follows throws.
C39_AcceptedBroadcastReturnsHash ==
    \A r \in RunIds :
        /\ "broadcast" \in Range(runs[r].passed) =>
              runs[r].pc = "done" /\ runs[r].result = "hash"
        /\ runs[r].result = "BroadcastFailed" =>
              "broadcast" \notin Range(runs[r].passed)
====
